---- MODULE Spec2Model ----
(***************************************************************************)
(* Model of the receipt-processing platform: the auth gateway              *)
(* (components/security/auth_gateway), the reflection agent                *)
(* (components/intelligence/reflection_agent) and the receipt processor    *)
(* (implementations/receipt_processor).                                    *)
(*                                                                         *)
(* Encoding of Python values:                                              *)
(*   - None is the string None; a str is a TLA+ string, except the date    *)
(*     field, whose text is a tuple of one-character strings so that the   *)
(*     substring test of the reflection agent can be computed;             *)
(*   - a float with two decimals is an integer number of hundredths        *)
(*     (0.85 is 85, 75.00 is 7500);                                        *)
(*   - a JSON value is a record [kind, f]: kind "dict" carries the dict f  *)
(*     (a function from field names to values), the other kinds (null,     *)
(*     list) carry the empty function.                                     *)
(***************************************************************************)
EXTENDS Integers, Sequences, FiniteSets, TLC

\* ------------------------------------------------------------------------
\* Bounds and sample values
\* ------------------------------------------------------------------------

\* Number of requests served one after the other in a behaviour.
MaxRequests == 2

None == "None"

\* A credential made of non-ASCII characters (header bytes above 127).
K_NONASCII == "k_nonascii"

\* Values the two secrets can have in the environment.
SecretValues == {None, "", "k1", "k2"}

\* Values of the X-API-Key header of an inbound request (None: no header).
PresentedKeys == {None, "", "k1", "k2", "k3", K_NONASCII}

EmptyDict == [x \in {} |-> 0]

JDict(f) == [kind |-> "dict", f |-> f]
JNull == [kind |-> "null", f |-> EmptyDict]
JList == [kind |-> "list", f |-> EmptyDict]

\* Text of a date field, one character per element.
Str(chars) == [t |-> "str", s |-> chars]
D_2024_01_01 == Str(<<"2","0","2","4","-","0","1","-","0","1">>)
D_2026_03_01 == Str(<<"2","0","2","6","-","0","3","-","0","1">>)
D_2027_01_01 == Str(<<"2","0","2","7","-","0","1","-","0","1">>)
D_FALLBACK == Str(<<"2","0","2","5","-","1","2","-","0","6">>)
D_NULL == [t |-> "null", s |-> <<>>]

\* ------------------------------------------------------------------------
\* Python helpers
\* ------------------------------------------------------------------------

\* dict.get(key, default)
Get(d, key, default) == IF key \in DOMAIN d THEN d[key] ELSE default

\* d with d[key] = value assigned
Put(d, key, value) == [k \in (DOMAIN d) \cup {key} |-> IF k = key THEN value ELSE d[k]]

\* "sub in text" for two str values (tuples of characters)
Contains(text, sub) ==
    \E i \in 0..(Len(text) - Len(sub)) :
        \A j \in 1..Len(sub) : text[i + j] = sub[j]

\* ------------------------------------------------------------------------
\* auth_gateway/auth.py
\* ------------------------------------------------------------------------

AdminIdentity ==
    [user_id |-> "u_admin", client_id |-> "platform_admin",
     roles |-> {"admin", "finance_approver"}, tenant_id |-> "TENANT_01"]

WorkerIdentity ==
    [user_id |-> "u_bot_01", client_id |-> "automation_worker",
     roles |-> {"worker"}, tenant_id |-> "TENANT_02"]

NoUser == [user_id |-> "", client_id |-> "", roles |-> {}, tenant_id |-> ""]

\* The dict literal: when both secrets are the same key, the later entry
\* (the worker record) replaces the value and the key keeps its position.
API_IDENTITY_MAP(adminKey, workerKey) ==
    [k \in {adminKey, workerKey} |-> IF k = workerKey THEN WorkerIdentity ELSE AdminIdentity]

\* Keys of the map in iteration (insertion) order.
MapKeys(adminKey, workerKey) ==
    IF adminKey = workerKey THEN <<adminKey>> ELSE <<adminKey, workerKey>>

\* valid_keys: the entries whose key is not None, in iteration order.
valid_keys(adminKey, workerKey) ==
    SelectSeq(MapKeys(adminKey, workerKey), LAMBDA k : k # None)

IsAscii(s) == s # K_NONASCII

\* hmac.compare_digest on two str: TypeError unless both are ASCII.
compare_digest(a, b) ==
    IF ~IsAscii(a) \/ ~IsAscii(b) THEN "TypeError"
    ELSE IF a = b THEN "True" ELSE "False"

AuthOk(u) == [status |-> 200, user |-> u, detail |-> ""]
AuthErr(code, detail) == [status |-> code, user |-> NoUser, detail |-> detail]

RECURSIVE MatchKeys(_, _, _)
MatchKeys(api_key, keys, map) ==
    IF keys = <<>> THEN AuthErr(403, "Invalid Credentials")
    ELSE LET c == compare_digest(api_key, Head(keys)) IN
         IF c = "TypeError" THEN AuthErr(500, "TypeError")
         ELSE IF c = "True" THEN AuthOk(map[Head(keys)])
         ELSE MatchKeys(api_key, Tail(keys), map)

get_current_user(api_key, adminKey, workerKey) ==
    IF api_key = None \/ api_key = ""
    THEN AuthErr(403, "Missing Authentication Header")
    ELSE MatchKeys(api_key, valid_keys(adminKey, workerKey),
                   API_IDENTITY_MAP(adminKey, workerKey))

\* RequireRole(required_role).__call__(user): TRUE, or FALSE for the 403.
RequireRole_NoAdminShortcut(required_role, u) ==
    required_role \in u.roles

RequireRole_NoDeny(required_role, u) ==
    TRUE

RequireRole(required_role, u) ==
    IF "admin" \in u.roles THEN TRUE
    ELSE IF required_role \notin u.roles THEN FALSE
    ELSE TRUE

\* ------------------------------------------------------------------------
\* receipt_processor/compliance.py
\* ------------------------------------------------------------------------

SPENDING_LIMIT == 7500

NoBlocks == [null |-> TRUE, blocks |-> <<>>]

generate_approval_ui(merchant, amount, alert_msg) ==
    [null |-> FALSE,
     blocks |-> <<
        [type |-> "section",
         text |-> [type |-> "mrkdwn",
                   text |-> [merchant |-> merchant, amount |-> amount, alert |-> alert_msg]],
         elements |-> <<>>],
        [type |-> "actions",
         text |-> [type |-> "", text |-> [merchant |-> "", amount |-> 0, alert |-> ""]],
         elements |-> << [type |-> "button", text |-> "Approve", value |-> "approve"],
                         [type |-> "button", text |-> "Reject", value |-> "reject"] >>]
     >>]

check_business_rules_StrictLimit(amount, merchant) ==
    IF amount > SPENDING_LIMIT
    THEN [status |-> "REVIEW_REQUIRED",
          ui_blocks |-> generate_approval_ui(merchant, amount, "Exceeds auto-approval limit")]
    ELSE [status |-> "APPROVED", ui_blocks |-> NoBlocks]

check_business_rules(amount, merchant) ==
    IF amount >= SPENDING_LIMIT
    THEN [status |-> "REVIEW_REQUIRED",
          ui_blocks |-> generate_approval_ui(merchant, amount, "Exceeds auto-approval limit")]
    ELSE [status |-> "APPROVED", ui_blocks |-> NoBlocks]

\* ------------------------------------------------------------------------
\* reflection_agent/main.py
\* ------------------------------------------------------------------------

\* A JSON body with the three ReflectionResponse keys; has is the set of
\* keys that are present (a body built by the agent itself has all three).
ResultBody(has, was_modified, refined_data, notes) ==
    [kind |-> "dict", has |-> has, was_modified |-> was_modified,
     refined_data |-> refined_data, notes |-> notes]

AllKeys == {"refined_data", "was_modified", "notes"}

\* A JSON body that is not an object (for instance a list).
NonDictBody == [kind |-> "list", has |-> {}, was_modified |-> FALSE,
                refined_data |-> JNull, notes |-> ""]

NoBody == [kind |-> "none", has |-> {}, was_modified |-> FALSE,
           refined_data |-> JNull, notes |-> ""]

HttpOk(body) == [status |-> 200, detail |-> "", body |-> body]
HttpError(code, detail) == [status |-> code, detail |-> detail, body |-> NoBody]
NoResponse == [status |-> 0, detail |-> "", body |-> NoBody]

YEAR_2026 == <<"2","0","2","6">>

\* The mock fallback of reflect (no client): data_payload is a dict.
\* An uncaught TypeError of the membership test is the framework's 500.
reflect_mock(data_payload) ==
    IF "date" \in DOMAIN data_payload
    THEN IF data_payload["date"].t # "str"
         THEN HttpError(500, "TypeError")
         ELSE IF Contains(data_payload["date"].s, YEAR_2026)
              THEN HttpOk(ResultBody(AllKeys, TRUE,
                                     JDict(Put(data_payload, "date", D_FALLBACK)),
                                     "Mock AI: Fixed future date error."))
              ELSE HttpOk(ResultBody(AllKeys, FALSE, JDict(data_payload),
                                     "AI Unavailable (Env Var Missing). Checks passed."))
    ELSE HttpOk(ResultBody(AllKeys, FALSE, JDict(data_payload),
                           "AI Unavailable (Env Var Missing). Checks passed."))

reflect_generative_Swallow(backend) ==
    IF backend.kind = "json" THEN HttpOk(backend.body)
    ELSE HttpOk(ResultBody(AllKeys, FALSE, JNull,
                           "AI Unavailable (Env Var Missing). Checks passed."))

\* The generative branch of reflect: backend is what the chat completion did,
\* "error" (the call raised), "unparseable" (json.loads raised) or a parsed
\* JSON body, which is returned as it is.
reflect_generative(backend) ==
    IF backend.kind = "error" THEN HttpError(500, "backend error")
    ELSE IF backend.kind = "unparseable" THEN HttpError(500, "JSONDecodeError")
    ELSE HttpOk(backend.body)

\* ------------------------------------------------------------------------
\* receipt_processor/main.py
\* ------------------------------------------------------------------------

CONFIDENCE_THRESHOLD == 85
DEFAULT_CONFIDENCE == 50
DEFAULT_AMOUNT == 0

ROUTE_DIRECT == "Direct Extraction"
ROUTE_HEALED == "Reflection Engine (Healed)"

\* get_ai_client: FALSE is the HTTPException(500) for a missing key.
get_ai_client(openai_api_key) == ~(openai_api_key = None \/ openai_api_key = "")

\* The routing test of process_receipt.
LowConfidence_Inclusive(confidence) == confidence <= CONFIDENCE_THRESHOLD

LowConfidence(confidence) == confidence < CONFIDENCE_THRESHOLD

\* What the POST to the reflection engine came to, as the orchestrator sees
\* it: kind "ok" is a 2xx response whose body parsed as JSON.
Reply(kind, body) == [kind |-> kind, body |-> body]

call_reflection_engine_IgnoreFlag(draft_data, reply) ==
    IF reply.kind # "ok" THEN draft_data
    ELSE LET result == reply.body IN
         IF result.kind # "dict" THEN draft_data
         ELSE IF "was_modified" \notin result.has THEN draft_data
         ELSE IF "refined_data" \notin result.has THEN draft_data
         ELSE result.refined_data

\* call_reflection_engine once the POST has completed: the new draft.
\* Every exception inside the try block returns draft_data.
call_reflection_engine(draft_data, reply) ==
    IF reply.kind # "ok" THEN draft_data
    ELSE LET result == reply.body IN
         IF result.kind # "dict" THEN draft_data
         ELSE IF "was_modified" \notin result.has THEN draft_data
         ELSE IF result.was_modified
              THEN IF "notes" \notin result.has THEN draft_data
                   ELSE IF "refined_data" \notin result.has THEN draft_data
                   ELSE result.refined_data
              ELSE draft_data

\* The response dict of process_receipt: the draft's fields with the three
\* keys compliance_status, ui_blocks and meta set after them.
OwnKeys == {"compliance_status", "ui_blocks", "meta"}

ProcessBody_DraftLast(draftFields, compliance, user_id, route) ==
    LET own == [compliance_status |-> compliance.status,
                ui_blocks |-> compliance.ui_blocks,
                meta |-> [processed_by |-> user_id, route |-> route, role |-> "worker"]]
    IN [k \in (DOMAIN draftFields) \cup OwnKeys |->
           IF k \in DOMAIN draftFields THEN draftFields[k] ELSE own[k]]

ProcessBody(draftFields, compliance, user_id, route) ==
    LET own == [compliance_status |-> compliance.status,
                ui_blocks |-> compliance.ui_blocks,
                meta |-> [processed_by |-> user_id, route |-> route, role |-> "worker"]]
    IN [k \in (DOMAIN draftFields) \cup OwnKeys |->
           IF k \in OwnKeys THEN own[k] ELSE draftFields[k]]

\* The part of a response dict that comes from the draft's own fields.
DraftPart(body) == [k \in (DOMAIN body) \ OwnKeys |-> body[k]]

NoCompliance == [status |-> "", ui_blocks |-> NoBlocks]

\* The except clause of process_receipt: whatever was raised inside the try
\* block becomes one HTTPException(500, "Processing failed: ...").
process_failed_Reraise(e) == HttpError(500, e)

process_failed(e) == HttpError(500, "Processing failed")

\* ------------------------------------------------------------------------
\* Inputs of the environment
\* ------------------------------------------------------------------------

OpenAiKeyValues == {None, "", "sk_openai"}

Endpoints == {"process", "reflect"}

\* Role required by the dependencies=[Depends(RequireRole(...))] of a route.
RequiredRole(endpoint) == IF endpoint = "process" THEN "worker" ELSE "admin"

\* Years the clock of the reflection agent can show when a request arrives.
Years == {2025, 2026}

FullDraft(merchant, amount, date, confidence) ==
    [k \in {"merchant", "amount", "date", "category", "confidence"} |->
        CASE k = "merchant" -> merchant
          [] k = "amount" -> amount
          [] k = "date" -> date
          [] k = "category" -> "food"
          [] OTHER -> confidence]

DateOnly(date) == [k \in {"date"} |-> date]

\* A draft whose fields have the names of the response's own keys.
ShadowingDraft ==
    [k \in {"amount", "confidence"} \cup OwnKeys |->
        CASE k = "amount" -> 20000
          [] k = "confidence" -> 90
          [] k = "compliance_status" -> "APPROVED"
          [] k = "ui_blocks" -> NoBlocks
          [] OTHER -> [processed_by |-> "nobody", route |-> "none", role |-> "admin"]]

\* Drafts the vision model can return (json_object: always a dict).
Drafts ==
    { FullDraft("X", a, D_2026_03_01, c) : a \in {7499, 7500, 20000}, c \in {84, 85} }
    \cup { DateOnly(D_2024_01_01), ShadowingDraft }

\* refined_data values a reflection reply can carry.
RefinedValues ==
    { JNull, JList,
      JDict(DateOnly(D_FALLBACK)),
      JDict(FullDraft("Y", 7499, D_FALLBACK, 50)),
      JDict(FullDraft("X", 20000, D_FALLBACK, 90)) }

\* JSON bodies of a 2xx reply of the reflection engine.
ReplyBodies ==
    { ResultBody(AllKeys, m, r, "note") : m \in BOOLEAN, r \in RefinedValues }
    \cup { ResultBody(AllKeys \ {k}, TRUE, JDict(DateOnly(D_FALLBACK)), "note") : k \in AllKeys }
    \cup { NonDictBody }

\* Ways the POST can fail: the client refuses to build the request
\* (client_error), no response in 30 s, no connection, a 4xx/5xx status, a
\* body that is not JSON.
FailureKinds == {"client_error", "timeout", "network_error", "bad_status", "bad_json"}

\* What the POST can come to, given the X-API-KEY header value it carries:
\* None is not a header value, so the client raises before sending; an empty
\* key is refused by the gate of the reflect route (403); otherwise any
\* failure or any JSON body can come back.
Replies(token) ==
    IF token = None THEN { Reply("client_error", NoBody) }
    ELSE IF token = "" THEN { Reply(k, NoBody) : k \in {"timeout", "network_error", "bad_status"} }
    ELSE { Reply(k, NoBody) : k \in FailureKinds \ {"client_error"} }
         \cup { Reply("ok", b) : b \in ReplyBodies }

\* Whether the reflection engine answers a POST at all.
EngineStates == {"answers", "silent"}

\* Outcomes of client.post(..., timeout=30.0): a request that could be sent
\* to an engine that stays silent ends with the timeout.
Outcomes_NoTimeout(token, engine) ==
    IF token = None THEN Replies(token)
    ELSE IF engine = "silent" THEN {}
    ELSE Replies(token) \ { Reply("timeout", NoBody) }

Outcomes(token, engine) ==
    IF token = None THEN Replies(token)
    ELSE IF engine = "silent" THEN { Reply("timeout", NoBody) }
    ELSE Replies(token)

\* data_payload values of a request to /reflect (validated as a dict).
Payloads ==
    { DateOnly(D_2026_03_01), DateOnly(D_2024_01_01), DateOnly(D_2027_01_01),
      DateOnly(D_NULL), [k \in {"merchant"} |-> "X"],
      FullDraft("X", 7500, D_2026_03_01, 84) }

\* What the chat completion of the generative branch can come to.
Backends ==
    { [kind |-> "error", body |-> NoBody], [kind |-> "unparseable", body |-> NoBody] }
    \cup { [kind |-> "json", body |-> b] :
             b \in { ResultBody(AllKeys, TRUE, JDict(DateOnly(D_FALLBACK)), "note"),
                     ResultBody(AllKeys, FALSE, JNull, "note"),
                     NonDictBody } }

\* ------------------------------------------------------------------------
\* State
\* ------------------------------------------------------------------------

VARIABLES
    ADMIN_KEY,          \* auth.py ADMIN_KEY, also main.py INTERNAL_AUTH_TOKEN
    WORKER_KEY,         \* auth.py WORKER_KEY
    OPENAI_API_KEY,     \* receipt processor's OPENAI_API_KEY
    client,             \* reflection agent's client: None or "OpenAI"
    nreq,               \* requests received so far
    pc,                 \* position of the request being served
    req,                \* the inbound request
    auth,               \* result of get_current_user
    authorized,         \* result of RequireRole
    origDraft,          \* the draft as extracted
    draft,              \* process_receipt's draft
    confidence,         \* process_receipt's confidence
    processing_route,   \* process_receipt's processing_route
    engine,             \* whether the reflection engine answers the POST
    reply,              \* what the POST to the reflection engine came to
    backend,            \* what the chat completion of reflect came to
    sentKey,            \* X-API-KEY header of the POST
    calls,              \* calls made while serving the request
    compliance,         \* result of check_business_rules
    response            \* what the caller gets

config == <<ADMIN_KEY, WORKER_KEY, OPENAI_API_KEY, client>>

work == <<origDraft, draft, confidence, processing_route, engine, reply, backend,
          sentKey, compliance>>

vars == <<ADMIN_KEY, WORKER_KEY, OPENAI_API_KEY, client, nreq, pc, req, auth,
          authorized, origDraft, draft, confidence, processing_route, engine, reply,
          backend, sentKey, calls, compliance, response>>

\* main.py: the key used to talk to the reflection engine.
INTERNAL_AUTH_TOKEN == ADMIN_KEY

NoCalls == [extraction |-> 0, routing |-> 0, reflection |-> 0, compliance |-> 0,
            reflect |-> 0, backend |-> 0]
NoBackend == [kind |-> "none", body |-> NoBody]
NoReq == [endpoint |-> "", api_key |-> None, data_payload |-> EmptyDict, now |-> 0]
NoAuth == AuthErr(0, "")
NoReply == Reply("none", NoBody)

Terminal == {"RESPONDED", "REJECTED", "FAILED"}

Init ==
    /\ ADMIN_KEY \in SecretValues
    /\ WORKER_KEY \in SecretValues
    /\ OPENAI_API_KEY \in OpenAiKeyValues
    /\ client \in {None, "OpenAI"}
    /\ nreq = 0
    /\ pc = "IDLE"
    /\ req = NoReq
    /\ auth = NoAuth
    /\ authorized = FALSE
    /\ origDraft = JNull
    /\ draft = JNull
    /\ confidence = 0
    /\ processing_route = ""
    /\ engine = ""
    /\ reply = NoReply
    /\ backend = NoBackend
    /\ sentKey = None
    /\ calls = NoCalls
    /\ compliance = NoCompliance
    /\ response = NoResponse

\* ------------------------------------------------------------------------
\* Actions
\* ------------------------------------------------------------------------

\* A request arrives at one of the two routes (one request at a time).
Receive ==
    /\ pc \in {"IDLE"} \cup Terminal
    /\ nreq < MaxRequests
    /\ nreq' = nreq + 1
    /\ \E e \in Endpoints, k \in PresentedKeys :
         \/ /\ e = "process"
            /\ req' = [endpoint |-> e, api_key |-> k, data_payload |-> EmptyDict, now |-> 0]
         \/ /\ e = "reflect"
            /\ \E p \in Payloads, y \in Years :
                 req' = [endpoint |-> e, api_key |-> k, data_payload |-> p, now |-> y]
    /\ pc' = "RECEIVED"
    /\ auth' = NoAuth
    /\ authorized' = FALSE
    /\ origDraft' = JNull
    /\ draft' = JNull
    /\ confidence' = 0
    /\ processing_route' = ""
    /\ engine' = ""
    /\ reply' = NoReply
    /\ backend' = NoBackend
    /\ sentKey' = None
    /\ calls' = NoCalls
    /\ compliance' = NoCompliance
    /\ response' = NoResponse
    /\ UNCHANGED config

\* get_current_user, the sub-dependency of RequireRole (solved once a request).
Authenticate ==
    /\ pc = "RECEIVED"
    /\ auth' = get_current_user(req.api_key, ADMIN_KEY, WORKER_KEY)
    /\ IF auth'.status = 200
       THEN /\ pc' = "AUTHENTICATED"
            /\ response' = response
       ELSE IF auth'.status = 403
       THEN /\ pc' = "REJECTED"
            /\ response' = HttpError(403, auth'.detail)
       ELSE /\ pc' = "FAILED"
            /\ response' = HttpError(500, "Internal Server Error")
    /\ UNCHANGED <<config, nreq, req, authorized, work, calls>>

\* RequireRole(required_role).__call__ of the route's dependencies.
Authorize ==
    /\ pc = "AUTHENTICATED"
    /\ authorized' = RequireRole(RequiredRole(req.endpoint), auth.user)
    /\ IF authorized'
       THEN /\ pc' = "AUTHORIZED"
            /\ response' = response
       ELSE /\ pc' = "REJECTED"
            /\ response' = HttpError(403, "Insufficient Permissions")
    /\ UNCHANGED <<config, nreq, req, auth, work, calls>>

\* get_ai_client, the dependency of process_receipt solved after the gate.
GetAiClient ==
    /\ pc = "AUTHORIZED"
    /\ req.endpoint = "process"
    /\ IF get_ai_client(OPENAI_API_KEY)
       THEN /\ pc' = "READY"
            /\ response' = response
       ELSE /\ pc' = "FAILED"
            /\ response' = HttpError(500, "Server Error: Missing OpenAI Key")
    /\ UNCHANGED <<config, nreq, req, auth, authorized, work, calls>>

\* process_receipt, steps 1 and 2: the vision model call and the parsing of
\* its reply; any exception becomes the 500 of the except clause.
Extract ==
    /\ pc = "READY"
    /\ calls' = [calls EXCEPT !.extraction = @ + 1]
    /\ \/ \E d \in Drafts :
            /\ origDraft' = JDict(d)
            /\ draft' = JDict(d)
            /\ confidence' = Get(d, "confidence", DEFAULT_CONFIDENCE)
            /\ pc' = "EXTRACTED"
            /\ response' = response
       \/ /\ pc' = "FAILED"
          /\ response' = process_failed("extraction error")
          /\ UNCHANGED <<origDraft, draft, confidence>>
    /\ UNCHANGED <<config, nreq, req, auth, authorized, processing_route, engine, reply,
                   backend, sentKey, compliance>>

\* process_receipt, step 3: the router, up to the POST being awaited.
Route ==
    /\ pc = "EXTRACTED"
    /\ processing_route' = ROUTE_DIRECT
    /\ IF LowConfidence(confidence)
       THEN /\ pc' = "REFLECTING"
            /\ sentKey' = INTERNAL_AUTH_TOKEN
            /\ engine' \in EngineStates
            /\ calls' = [calls EXCEPT !.routing = @ + 1, !.reflection = @ + 1]
       ELSE /\ pc' = "DIRECT"
            /\ calls' = [calls EXCEPT !.routing = @ + 1]
            /\ UNCHANGED <<sentKey, engine>>
    /\ UNCHANGED <<config, nreq, req, auth, authorized, origDraft, draft, confidence,
                   reply, backend, compliance, response>>

\* process_receipt, step 4 and the return, given the draft and the route.
Finish(d, route) ==
    /\ calls' = [calls EXCEPT !.compliance = @ + 1]
    /\ IF d.kind # "dict"
       THEN /\ pc' = "FAILED"
            /\ compliance' = compliance
            /\ response' = process_failed("AttributeError")
       ELSE /\ pc' = "COMPLIANCE_CHECKED"
            /\ compliance' = check_business_rules(Get(d.f, "amount", DEFAULT_AMOUNT),
                                                  Get(d.f, "merchant", "Unknown"))
            /\ response' = response

\* The direct route: no correction attempted.
ComplianceDirect ==
    /\ pc = "DIRECT"
    /\ Finish(draft, processing_route)
    /\ UNCHANGED <<config, nreq, req, auth, authorized, origDraft, draft, confidence,
                   processing_route, engine, reply, backend, sentKey>>

ReflectionReturns_Rescore ==
    /\ pc = "REFLECTING"
    /\ \E r \in Outcomes(sentKey, engine) :
         /\ reply' = r
         /\ draft' = call_reflection_engine(draft, r)
    /\ confidence' = IF draft'.kind = "dict"
                     THEN Get(draft'.f, "confidence", DEFAULT_CONFIDENCE)
                     ELSE confidence
    /\ processing_route' = ROUTE_HEALED
    /\ Finish(draft', processing_route')
    /\ UNCHANGED <<config, nreq, req, auth, authorized, origDraft, engine, backend, sentKey>>

\* The POST to the reflection engine completes (or raises, or times out):
\* call_reflection_engine returns, the route is marked, compliance runs.
ReflectionReturns ==
    /\ pc = "REFLECTING"
    /\ \E r \in Outcomes(sentKey, engine) :
         /\ reply' = r
         /\ draft' = call_reflection_engine(draft, r)
    /\ processing_route' = ROUTE_HEALED
    /\ Finish(draft', processing_route')
    /\ UNCHANGED <<config, nreq, req, auth, authorized, origDraft, confidence, engine,
                   backend, sentKey>>

\* process_receipt's return statement.
Respond ==
    /\ pc = "COMPLIANCE_CHECKED"
    /\ response' = HttpOk(ProcessBody(draft.f, compliance, auth.user.user_id, processing_route))
    /\ pc' = "RESPONDED"
    /\ UNCHANGED <<config, nreq, req, auth, authorized, work, calls>>

ReflectMock_InPlace ==
    /\ pc = "AUTHORIZED"
    /\ req.endpoint = "reflect"
    /\ client = None
    /\ calls' = [calls EXCEPT !.reflect = @ + 1]
    /\ response' = reflect_mock(req.data_payload)
    /\ req' = IF response'.status = 200
              THEN [req EXCEPT !.data_payload = response'.body.refined_data.f]
              ELSE req
    /\ pc' = IF response'.status = 200 THEN "RESPONDED" ELSE "FAILED"
    /\ UNCHANGED <<config, nreq, auth, authorized, work>>

\* reflect, mock fallback (no client).
ReflectMock ==
    /\ pc = "AUTHORIZED"
    /\ req.endpoint = "reflect"
    /\ client = None
    /\ calls' = [calls EXCEPT !.reflect = @ + 1]
    /\ response' = reflect_mock(req.data_payload)
    /\ pc' = IF response'.status = 200 THEN "RESPONDED" ELSE "FAILED"
    /\ UNCHANGED <<config, nreq, req, auth, authorized, work>>

\* reflect, generative branch (client configured).
ReflectGenerative ==
    /\ pc = "AUTHORIZED"
    /\ req.endpoint = "reflect"
    /\ client # None
    /\ calls' = [calls EXCEPT !.reflect = @ + 1, !.backend = @ + 1]
    /\ backend' \in Backends
    /\ response' = reflect_generative(backend')
    /\ pc' = IF response'.status = 200 THEN "RESPONDED" ELSE "FAILED"
    /\ UNCHANGED <<config, nreq, req, auth, authorized, origDraft, draft, confidence,
                   processing_route, engine, reply, sentKey, compliance>>

Next ==
    \/ Receive
    \/ Authenticate
    \/ Authorize
    \/ GetAiClient
    \/ Extract
    \/ Route
    \/ ComplianceDirect
    \/ ReflectionReturns
    \/ Respond
    \/ ReflectMock
    \/ ReflectGenerative

Spec == Init /\ [][Next]_vars

\* The steps of a request that has been received are taken: the handler's
\* coroutine is scheduled, and the POST returns, raises or times out.
FairSpec ==
    /\ Spec
    /\ WF_vars(Authenticate)
    /\ WF_vars(Authorize)
    /\ WF_vars(GetAiClient)
    /\ WF_vars(Extract)
    /\ WF_vars(Route)
    /\ WF_vars(ComplianceDirect)
    /\ WF_vars(ReflectionReturns)
    /\ WF_vars(Respond)
    /\ WF_vars(ReflectMock)
    /\ WF_vars(ReflectGenerative)

\* ------------------------------------------------------------------------
\* Properties
\* ------------------------------------------------------------------------

\* The confidence of the extracted draft (0.5 when the draft has none).
DraftConfidence == Get(origDraft.f, "confidence", DEFAULT_CONFIDENCE)

\* The router has taken its decision for the request being served.
Routed == processing_route # ""

\* A reply of the reflection engine that is a failure of the call: nothing
\* usable came back, or the body is not a well-formed ReflectionResult.
MalformedBody(b) ==
    \/ b.kind # "dict"
    \/ ~(AllKeys \subseteq b.has)
    \/ b.refined_data.kind # "dict"

ReflectionFailed(r) ==
    \/ r.kind \in FailureKinds
    \/ r.kind = "ok" /\ MalformedBody(r.body)

\* A well-formed reply with was_modified = true.
SuccessModified(r) ==
    /\ r.kind = "ok"
    /\ ~MalformedBody(r.body)
    /\ r.body.was_modified

\* Field-wise overwrite of orig by refined.
Merge(orig, refined) ==
    [k \in (DOMAIN orig) \cup (DOMAIN refined) |->
        IF k \in DOMAIN refined THEN refined[k] ELSE orig[k]]

\* C1: fail-open. Whenever the reflection call of a low-confidence request
\* failed (timeout, network error, non-success status, malformed body), the
\* request does not fail, and the response it returns carries the compliance
\* decision computed from the original draft's amount and merchant.
C1_FailOpen ==
    (req.endpoint = "process" /\ ReflectionFailed(reply)) =>
        /\ pc # "FAILED"
        /\ pc = "RESPONDED" =>
             LET d == check_business_rules(Get(origDraft.f, "amount", DEFAULT_AMOUNT),
                                           Get(origDraft.f, "merchant", "Unknown"))
             IN /\ response.status = 200
                /\ response.body.compliance_status = d.status
                /\ response.body.ui_blocks = d.ui_blocks

\* C2: when the reflection call failed at the network level, the route marker
\* of the response is not "Reflection Engine (Healed)".
C2_RouteNotHealedOnFailure ==
    (pc = "RESPONDED" /\ req.endpoint = "process"
        /\ reply.kind \in {"timeout", "network_error"}) =>
        response.body.meta.route # ROUTE_HEALED

\* C3: the reflection engine is called if and only if the draft's confidence
\* is below 0.85; at 0.85 or above the request takes the direct route with no
\* reflection call, at 0.84 it goes through reflection.
C3_RoutingThreshold ==
    /\ ~Routed => calls.reflection = 0
    /\ Routed =>
         /\ DraftConfidence < 85 => calls.reflection = 1 /\ pc # "DIRECT"
         /\ DraftConfidence >= 85 => calls.reflection = 0 /\ pc # "REFLECTING"
    /\ pc = "REFLECTING" => DraftConfidence < 85
    /\ pc = "DIRECT" => DraftConfidence >= 85

C3_Witness ==
    /\ pc = "DIRECT"
    /\ DraftConfidence = 85
    /\ calls.reflection = 0

\* C4: after a successful reflection with was_modified = true, the draft is
\* the original draft with refined_data's fields written over it, so that the
\* original fields refined_data lacks survive, in the draft and the response.
C4_FieldWiseMerge ==
    (req.endpoint = "process" /\ SuccessModified(reply)) =>
        LET merged == Merge(origDraft.f, reply.body.refined_data.f)
        IN /\ draft = JDict(merged)
           /\ pc = "RESPONDED" => DraftPart(response.body) = merged

\* The secrets that are set in the environment.
SetSecrets == {ADMIN_KEY, WORKER_KEY} \ {None, ""}

\* C5: get_current_user resolves an identity only if the presented credential
\* equals a secret that is set, and in every other case fails with the
\* authentication error (403).
C5_ResolveOnlySetSecret ==
    auth.status # 0 =>
        /\ auth.status = 200 => req.api_key \in SetSecrets
        /\ req.api_key \notin SetSecrets => auth.status = 403 /\ pc = "REJECTED"

\* RequireRole has been evaluated for the request being served.
Gated == auth.status = 200 /\ pc # "AUTHENTICATED"

\* C6: RequireRole authorizes exactly the identities that hold admin or the
\* required role; every other identity is rejected with the 403.
C6_RequireRole ==
    Gated =>
        /\ authorized <=> ("admin" \in auth.user.roles
                            \/ RequiredRole(req.endpoint) \in auth.user.roles)
        /\ ~authorized => pc = "REJECTED" /\ response.status = 403

C6_Witness ==
    /\ pc = "AUTHORIZED"
    /\ authorized
    /\ "admin" \in auth.user.roles
    /\ RequiredRole(req.endpoint) \notin auth.user.roles

\* C7: a process request whose credential does not resolve, or whose
\* identity has neither worker nor admin, makes no extraction call, no
\* reflection call and no compliance evaluation, and ends in the
\* permission-denied rejection.
C7_AuthFailureTerminal ==
    (req.endpoint = "process" /\ pc \notin {"IDLE", "RECEIVED", "AUTHENTICATED"}
        /\ (auth.status # 200 \/ ~authorized)) =>
        /\ calls = NoCalls
        /\ pc = "REJECTED"
        /\ response.status = 403

\* The arguments of the compliance evaluation of the request being served.
ComplianceAmount == Get(draft.f, "amount", DEFAULT_AMOUNT)
ComplianceMerchant == Get(draft.f, "merchant", "Unknown")

\* C8: check_business_rules yields REVIEW_REQUIRED with an artifact naming
\* the merchant and the amount and offering exactly approve and reject when
\* amount >= 75.00, and APPROVED with no artifact when amount < 75.00.
C8_CompliancePartition ==
    compliance # NoCompliance =>
        /\ ComplianceAmount >= 7500 =>
             /\ compliance.status = "REVIEW_REQUIRED"
             /\ ~compliance.ui_blocks.null
             /\ Len(compliance.ui_blocks.blocks) = 2
             /\ compliance.ui_blocks.blocks[1].text.text.merchant = ComplianceMerchant
             /\ compliance.ui_blocks.blocks[1].text.text.amount = ComplianceAmount
             /\ [i \in 1..Len(compliance.ui_blocks.blocks[2].elements) |->
                    compliance.ui_blocks.blocks[2].elements[i].value] = <<"approve", "reject">>
        /\ ComplianceAmount < 7500 =>
             /\ compliance.status = "APPROVED"
             /\ compliance.ui_blocks.null
        /\ ~compliance.ui_blocks.null <=> compliance.status = "REVIEW_REQUIRED"

C8_Witness ==
    /\ pc = "COMPLIANCE_CHECKED"
    /\ ComplianceAmount = 7500
    /\ compliance.status = "REVIEW_REQUIRED"

\* C9: reflect runs, and a ReflectionResult is returned, only for a request
\* whose credential is the admin secret, set and resolving to the identity
\* that holds admin.
C9_ReflectAdminOnly ==
    (req.endpoint = "reflect" /\ (calls.reflect > 0 \/ response.status = 200)) =>
        /\ req.api_key \notin {None, ""}
        /\ req.api_key = ADMIN_KEY
        /\ req.api_key # WORKER_KEY

C9_Witness ==
    /\ req.endpoint = "reflect"
    /\ pc = "RESPONDED"
    /\ calls.reflect = 1
    /\ response.status = 200

Digit(c) ==
    CASE c = "0" -> 0 [] c = "1" -> 1 [] c = "2" -> 2 [] c = "3" -> 3 [] c = "4" -> 4
      [] c = "5" -> 5 [] c = "6" -> 6 [] c = "7" -> 7 [] c = "8" -> 8 [] c = "9" -> 9

\* The year of a YYYY-MM-DD text.
YearOf(chars) ==
    1000 * Digit(chars[1]) + 100 * Digit(chars[2]) + 10 * Digit(chars[3]) + Digit(chars[4])

\* The payload has a date whose year is after the year of the clock.
FutureDated(payload, now) ==
    /\ "date" \in DOMAIN payload
    /\ payload["date"].t = "str"
    /\ YearOf(payload["date"].s) > now

\* C10: in fallback mode a result of reflect has was_modified = true exactly
\* when the payload's date is in a future year, refined_data then being the
\* payload with only the date replaced by 2025-12-06; every other payload
\* comes back unchanged with was_modified = false.
C10_FallbackFutureDate ==
    (req.endpoint = "reflect" /\ client = None /\ response.status = 200) =>
        LET p == req.data_payload
        IN IF FutureDated(p, req.now)
           THEN /\ response.body.was_modified
                /\ response.body.refined_data = JDict(Put(p, "date", D_FALLBACK))
           ELSE /\ ~response.body.was_modified
                /\ response.body.refined_data = JDict(p)

\* C11: in fallback mode reflect calls no backend and returns a
\* ReflectionResult, never an error, for every data payload.
C11_FallbackNeverFails ==
    (req.endpoint = "reflect" /\ client = None /\ calls.reflect > 0) =>
        /\ calls.backend = 0
        /\ pc = "RESPONDED"
        /\ response.status = 200

\* C12: in generative mode a backend error or a reply that does not parse
\* surfaces as HTTP 500, and a result that is returned is the backend's own
\* body, never the payload corrected locally.
C12_GenerativeNoFallback ==
    (req.endpoint = "reflect" /\ client # None /\ calls.reflect > 0) =>
        /\ calls.backend = 1
        /\ backend.kind \in {"error", "unparseable"} =>
             pc = "FAILED" /\ response.status = 500 /\ response.body = NoBody
        /\ response.status = 200 =>
             backend.kind = "json" /\ response.body = backend.body

C12_Witness ==
    /\ req.endpoint = "reflect"
    /\ client # None
    /\ backend.kind = "unparseable"
    /\ pc = "FAILED"
    /\ response.status = 500

\* The extraction, or the compliance step, of the request raised.
ExtractionFailed == calls.extraction = 1 /\ origDraft.kind # "dict"
ComplianceFailed == calls.compliance = 1 /\ draft.kind # "dict"

\* C13: a failure during extraction or compliance evaluation ends the
\* request with the one generic processing error (500, "Processing failed")
\* and no partial response; no step is run a second time, and a response
\* never carries both an error and a body.
C13_GenericProcessingError ==
    /\ (req.endpoint = "process" /\ (ExtractionFailed \/ ComplianceFailed)) =>
          /\ pc = "FAILED"
          /\ response.status = 500
          /\ response.detail = "Processing failed"
          /\ response.body = NoBody
          /\ calls.extraction = 1
          /\ calls.reflection <= 1
          /\ calls.compliance <= 1
    /\ (req.endpoint = "process" /\ response.status \notin {0, 200}) =>
          response.body = NoBody

C13_Witness ==
    /\ req.endpoint = "process"
    /\ ExtractionFailed
    /\ pc = "FAILED"
    /\ response.detail = "Processing failed"

\* A reply that parsed and says was_modified = false.
SuccessUnmodified(r) ==
    /\ r.kind = "ok"
    /\ r.body.kind = "dict"
    /\ "was_modified" \in r.body.has
    /\ ~r.body.was_modified

\* C14: after a successful reflection with was_modified = false the draft
\* used for compliance and returned is the original draft, field for field,
\* whatever refined_data came back.
C14_UnmodifiedKeepsDraft ==
    (req.endpoint = "process" /\ SuccessUnmodified(reply)) =>
        /\ draft = origDraft
        /\ compliance = check_business_rules(Get(origDraft.f, "amount", DEFAULT_AMOUNT),
                                             Get(origDraft.f, "merchant", "Unknown"))
        /\ pc = "RESPONDED" => DraftPart(response.body) = origDraft.f

C14_Witness ==
    /\ pc = "RESPONDED"
    /\ SuccessUnmodified(reply)
    /\ reply.body.refined_data.kind = "dict"
    /\ reply.body.refined_data # origDraft

\* The order of the steps of a process request.
C15_Order ==
    /\ calls.extraction <= 1
    /\ calls.routing <= 1
    /\ calls.reflection <= 1
    /\ calls.compliance <= 1
    /\ pc = "EXTRACTED" => calls.extraction = 1 /\ calls.routing = 0 /\ calls.compliance = 0
    /\ pc \in {"DIRECT", "REFLECTING"} =>
         calls.extraction = 1 /\ calls.routing = 1 /\ calls.compliance = 0
    /\ (req.endpoint = "process" /\ pc \in {"COMPLIANCE_CHECKED", "RESPONDED"}) =>
         calls.extraction = 1 /\ calls.routing = 1 /\ calls.compliance = 1
    /\ origDraft.kind = "dict" => confidence = DraftConfidence

C15_Step ==
    /\ pc = "EXTRACTED" => pc' \in {"DIRECT", "REFLECTING"}
    /\ pc = "DIRECT" => pc' = "COMPLIANCE_CHECKED"
    /\ pc = "REFLECTING" => pc' \in {"COMPLIANCE_CHECKED", "FAILED"}
    /\ pc = "COMPLIANCE_CHECKED" => pc' = "RESPONDED"
    /\ pc' = "EXTRACTED" => pc = "READY"
    /\ pc' = "COMPLIANCE_CHECKED" => pc \in {"DIRECT", "REFLECTING"}
    /\ (pc' = "RESPONDED" /\ req.endpoint = "process") => pc = "COMPLIANCE_CHECKED"
    /\ draft' # draft => (pc \in {"READY", "REFLECTING"} \/ pc' = "RECEIVED")
    /\ confidence' # confidence => (pc = "READY" \/ pc' = "RECEIVED")

\* C15: a request goes RECEIVED, EXTRACTED, then DIRECT or REFLECTING, then
\* COMPLIANCE_CHECKED, then RESPONDED; routing is decided once from the
\* extracted confidence, which a corrected draft never changes, the
\* reflection engine is called and the draft replaced at most once, and
\* compliance runs once, after routing and reflection.
C15_OrderAndOnce == []C15_Order /\ [][C15_Step]_vars

C15_Witness ==
    /\ pc = "RESPONDED"
    /\ draft # origDraft
    /\ Get(draft.f, "confidence", DEFAULT_CONFIDENCE) < 85
    /\ calls.routing = 1
    /\ calls.reflection = 1
    /\ calls.compliance = 1

\* C16: compliance_status and ui_blocks of a response are the evaluator's
\* result for the final draft's amount and merchant, REVIEW_REQUIRED exactly
\* when that amount is >= 75.00, also when the draft has fields named
\* compliance_status, ui_blocks or meta.
C16_ResponseCarriesDecision ==
    (req.endpoint = "process" /\ pc = "RESPONDED") =>
        LET d == check_business_rules(ComplianceAmount, ComplianceMerchant)
        IN /\ response.body["compliance_status"] = d.status
           /\ response.body["ui_blocks"] = d.ui_blocks
           /\ response.body["compliance_status"] = "REVIEW_REQUIRED" <=> ComplianceAmount >= 7500
           /\ response.body["meta"].processed_by = auth.user.user_id

C16_Witness ==
    /\ req.endpoint = "process"
    /\ pc = "RESPONDED"
    /\ "compliance_status" \in DOMAIN draft.f
    /\ draft.f["compliance_status"] # response.body["compliance_status"]

\* C17: the credential sent to the reflection engine differs from the
\* credential the caller presented.
C17_ServiceCredentialDistinct ==
    (req.endpoint = "process" /\ calls.reflection > 0) => sentKey # req.api_key

\* C18: a request in REFLECTING leaves it: the POST returns or times out,
\* the compliance step is run and the request ends in RESPONDED or in the
\* processing error.
C18_ReflectingTerminates ==
    \A n \in 1..MaxRequests :
        (pc = "REFLECTING" /\ nreq = n) ~>
            (nreq = n /\ calls.compliance = 1 /\ pc \in {"RESPONDED", "FAILED"})

C18_Witness ==
    /\ engine = "silent"
    /\ reply.kind = "timeout"
    /\ calls.compliance = 1
    /\ pc = "RESPONDED"

\* The response of a request as a function of the configuration, the
\* request and the replies of its own collaborators.
OutcomeAlone ==
    LET a == get_current_user(req.api_key, ADMIN_KEY, WORKER_KEY)
        d == IF LowConfidence(Get(origDraft.f, "confidence", DEFAULT_CONFIDENCE))
             THEN call_reflection_engine(origDraft, reply)
             ELSE origDraft
        route == IF LowConfidence(Get(origDraft.f, "confidence", DEFAULT_CONFIDENCE))
                 THEN ROUTE_HEALED ELSE ROUTE_DIRECT
    IN IF a.status = 403 THEN HttpError(403, a.detail)
       ELSE IF a.status # 200 THEN HttpError(500, "Internal Server Error")
       ELSE IF ~RequireRole(RequiredRole(req.endpoint), a.user)
            THEN HttpError(403, "Insufficient Permissions")
       ELSE IF req.endpoint = "reflect"
            THEN IF client = None THEN reflect_mock(req.data_payload)
                 ELSE reflect_generative(backend)
       ELSE IF ~get_ai_client(OPENAI_API_KEY)
            THEN HttpError(500, "Server Error: Missing OpenAI Key")
       ELSE IF origDraft.kind # "dict" \/ d.kind # "dict"
            THEN HttpError(500, "Processing failed")
       ELSE HttpOk(ProcessBody(d.f,
                               check_business_rules(Get(d.f, "amount", DEFAULT_AMOUNT),
                                                    Get(d.f, "merchant", "Unknown")),
                               a.user.user_id, route))

C20_MockExtraction ==
    (req.endpoint = "process" /\ authorized /\ OPENAI_API_KEY \in {None, ""}
        /\ pc \notin {"AUTHORIZED"}) =>
        /\ pc # "FAILED" \/ calls.extraction > 0
        /\ response.detail # "Server Error: Missing OpenAI Key"

====
